---- MODULE Spec2Model ----
(***************************************************************************)
(* Model of assets/brand/generate-icons.py: the icon renderer draw_icon,   *)
(* the two exporters generate_ico and generate_pngs, and the __main__      *)
(* driver.  A raster is modelled by the list of drawing calls that made    *)
(* it; the script directory is a function from file names to contents.     *)
(*                                                                         *)
(* Design-space numbers with a fractional half (4.5, 3.5, 7.5, 2.5) are    *)
(* kept exact by storing every design-space number doubled: the scale      *)
(* factor is s = size/256, so int(x * s) = (2x * size) \div 512.  Both     *)
(* size/256 and its products with these numbers are exact in binary        *)
(* floating point, so the integer arithmetic is the code's arithmetic.     *)
(***************************************************************************)
EXTENDS Integers, Sequences, FiniteSets, TLC

\* ------------------------------------------------------------------ bounds
\* draw_icon is explored for every size in 1..MaxSize and for every
\* exported size.
MaxSize == 130

\* -------------------------------------------------------- program constants
DESIGN == 256

DARK ==
  [ bg         |-> <<12, 26, 14>>,
    card       |-> <<26, 46, 28>>,
    green      |-> <<74, 222, 128>>,
    earth      |-> <<196, 167, 125>>,
    sage       |-> <<156, 163, 137>>,
    line_green |-> <<74, 222, 128, 89>>,
    line_earth |-> <<196, 167, 125, 89>>,
    line_faint |-> <<74, 222, 128, 18>>,
    ring       |-> <<74, 222, 128, 25>>,
    sage_dim   |-> <<156, 163, 137, 127>> ]

LIGHT ==
  [ bg         |-> <<245, 245, 240>>,
    card       |-> <<245, 245, 240>>,
    green      |-> <<22, 163, 74>>,
    earth      |-> <<146, 115, 78>>,
    sage       |-> <<107, 122, 86>>,
    line_green |-> <<22, 101, 52, 102>>,
    line_earth |-> <<146, 116, 78, 102>>,
    line_faint |-> <<22, 101, 52, 18>>,
    ring       |-> <<22, 101, 52, 25>>,
    sage_dim   |-> <<100, 116, 80, 127>> ]

Palettes == {DARK, LIGHT}

\* A colour argument that is not passed to the drawing call.
NoColor == <<>>

ICO_SIZES == <<16, 24, 32, 48, 64, 128, 256>>

\* Variant: the largest PNG size left out.
PNG_SIZES_short == <<32, 64, 128, 256>>

PNG_SIZES == <<32, 64, 128, 256, 512>>

\* ------------------------------------------------------------- draw_icon
\* int(x * s) for a design-space number x given doubled (x2 = 2x).
IntScale(x2, size) == (x2 * size) \div (2 * DESIGN)

\* Variant: the radius rounded to nearest instead of truncated.
corner_radius_round(size) ==
  LET r == (64 * size + DESIGN) \div (2 * DESIGN)
  IN  IF r < 2 THEN 2 ELSE r

\* r = int(32 * s); if r < 2: r = 2
corner_radius(size) ==
  LET r == IntScale(64, size)
  IN  IF r < 2 THEN 2 ELSE r

\* The background call: rounded_rectangle(radius=r) or rectangle.
Background(size, palette, rounded_bg) ==
  IF rounded_bg
    THEN [shape |-> "rounded_rectangle", box |-> <<0, 0, size - 1, size - 1>>,
          radius |-> corner_radius(size), fill |-> palette.bg]
    ELSE [shape |-> "rectangle", box |-> <<0, 0, size - 1, size - 1>>,
          radius |-> 0, fill |-> palette.bg]

sc(x, y, size) == <<IntScale(2 * x, size), IntScale(2 * y, size)>>

lw(w2, size) ==
  LET w == IntScale(w2, size) IN IF w < 1 THEN 1 ELSE w

\* draw.line([sc(x1, y1), sc(x2, y2)], fill=color, width=lw(width))
draw_line(elem, idx, x1, y1, x2, y2, color, width2, size) ==
  << [ elem |-> elem, idx |-> idx, part |-> "line",
       a |-> sc(x1, y1, size), b |-> sc(x2, y2, size), r |-> 0,
       fill |-> color, outline |-> NoColor, width |-> lw(width2, size) ] >>

\* ir_px = max(1, int(inner_r * s))
inner_px(inner_r2, size) ==
  LET r == IntScale(inner_r2, size) IN IF r < 1 THEN 1 ELSE r

\* The outer circle, then the inner dot when ir_px > 0.
draw_node(elem, idx, cx, cy, outer_r2, inner_r2, stroke_color, fill_color, bg_color, stroke_w2, size) ==
  LET o     == sc(cx, cy, size)
      or0   == IntScale(outer_r2, size)
      or_px == IF or0 < 1 THEN 1 ELSE or0
      ir_px == inner_px(inner_r2, size)
      sw0   == IntScale(stroke_w2, size)
      sw    == IF sw0 < 1 THEN 1 ELSE sw0
      outer == [ elem |-> elem, idx |-> idx, part |-> "outer",
                 a |-> o, b |-> o, r |-> or_px,
                 fill |-> bg_color, outline |-> stroke_color, width |-> sw ]
      inner == [ elem |-> elem, idx |-> idx, part |-> "inner",
                 a |-> o, b |-> o, r |-> ir_px,
                 fill |-> fill_color, outline |-> NoColor, width |-> 0 ]
  IN  IF ir_px > 0 THEN <<outer, inner>> ELSE <<outer>>

\* Variant: the threshold taken strictly.
show_details_strict(size) == size > 32

show_details(size) == size >= 32

\* Variant: the satellites shown only in a band of sizes.
show_satellites_band(size) == size >= 48 /\ size < 128

show_satellites(size) == size >= 48

\* Variant: the rings shown from a size at which their radius scales to 0.
show_ring_low(size) == size >= 8

show_ring(size) == size >= 64

\* draw.ellipse([cx - r, ...], outline=palette["ring"], width=lw(2)) with
\* r = int(r_design * s), not clamped.
draw_ring(elem, x, y, r2, palette, size) ==
  LET c == sc(x, y, size)
  IN  << [ elem |-> elem, idx |-> 1, part |-> "ring",
           a |-> c, b |-> c, r |-> IntScale(r2, size),
           fill |-> NoColor, outline |-> palette.ring, width |-> lw(4, size) ] >>

\* sage_line = (*palette["sage"][:3], 38)
sage_line(palette) == SubSeq(palette.sage, 1, 3) \o <<38>>

LEAF_NODES == << <<44, 56>>, <<100, 56>>, <<156, 56>>, <<212, 56>> >>

GATEWAY_NODES == << <<72, 88>>, <<184, 88>> >>

SATELLITE_NODES == << <<96, 156>>, <<164, 152>> >>

\* Design-space radii and stroke widths of the node classes, doubled:
\* <<outer_r, inner_r, stroke_w>>.
NodeDesign ==
  [ leaf_node      |-> <<20, 9, 6>>,
    gateway_node   |-> <<26, 12, 8>>,
    junction_node  |-> <<30, 15, 8>>,
    satellite_node |-> <<14, 6, 5>>,
    root_node      |-> <<36, 18, 10>> ]

RECURSIVE Flatten(_)
Flatten(ss) == IF ss = <<>> THEN <<>> ELSE Head(ss) \o Flatten(Tail(ss))

\* The drawing calls of draw_icon after the background, in the code's order.
DrawOps(size, palette) ==
  LET nd(e) == NodeDesign[e]
      node(e, k, p, stroke, fill) ==
        draw_node(e, k, p[1], p[2], nd(e)[1], nd(e)[2], stroke, fill,
                  palette.card, nd(e)[3], size)
  IN
  Flatten(<<
    IF show_ring(size)
      THEN draw_ring("outer_ring", 128, 128, 228, palette, size) ELSE <<>>,
    draw_line("trunk", 1, 128, 200, 128, 132, palette.line_green, 10, size),
    draw_line("main_branch", 1, 128, 132, 72, 88, palette.line_green, 9, size),
    draw_line("main_branch", 2, 128, 132, 184, 88, palette.line_green, 9, size),
    draw_line("leaf_branch", 1, 72, 88, 44, 56, palette.line_earth, 7, size),
    draw_line("leaf_branch", 2, 72, 88, 100, 56, palette.line_earth, 7, size),
    draw_line("leaf_branch", 3, 184, 88, 156, 56, palette.line_earth, 7, size),
    draw_line("leaf_branch", 4, 184, 88, 212, 56, palette.line_earth, 7, size),
    IF show_details(size)
      THEN draw_line("discovery_link", 1, 100, 56, 156, 56,
                     palette.line_faint, 4, size)
      ELSE <<>>,
    IF show_satellites(size)
      THEN draw_line("satellite_line", 1, 128, 132, 96, 156,
                     sage_line(palette), 4, size)
           \o draw_line("satellite_line", 2, 128, 132, 164, 152,
                        sage_line(palette), 4, size)
      ELSE <<>>,
    Flatten([k \in 1..Len(LEAF_NODES) |->
      node("leaf_node", k, LEAF_NODES[k], palette.earth, palette.earth)]),
    Flatten([k \in 1..Len(GATEWAY_NODES) |->
      node("gateway_node", k, GATEWAY_NODES[k], palette.green, palette.green)]),
    node("junction_node", 1, <<128, 132>>, palette.green, palette.green),
    IF show_satellites(size)
      THEN Flatten([k \in 1..Len(SATELLITE_NODES) |->
             node("satellite_node", k, SATELLITE_NODES[k],
                  palette.sage_dim, palette.sage)])
      ELSE <<>>,
    IF show_ring(size)
      THEN draw_ring("glow_ring", 128, 200, 42, palette, size) ELSE <<>>,
    node("root_node", 1, <<128, 200>>, palette.green, palette.green)
  >>)

\* draw_icon(size, palette, rounded_bg): a transparent size x size RGBA
\* canvas, the background, then the scene.
draw_icon(size, palette, rounded_bg) ==
  [ size |-> size, mode |-> "RGBA",
    background |-> Background(size, palette, rounded_bg),
    ops |-> DrawOps(size, palette) ]

\* ------------------------------------------------- Image.save(format="ICO")
\* Pillow's ICO writer, as documented for the "sizes" and "append_images"
\* arguments: the requested sizes are de-duplicated and sorted; a size larger
\* than the image save() is called on, or larger than 256, is ignored; for a
\* kept size the first provided image (the base image, then append_images) of
\* exactly that size is stored, otherwise a scaled copy of the base image.
SizeLess(p, q) == p[1] < q[1] \/ (p[1] = q[1] /\ p[2] < q[2])

RECURSIVE SortedSizes(_)
SortedSizes(S) ==
  IF S = {} THEN <<>>
  ELSE LET m == CHOOSE p \in S : \A q \in S \ {p} : SizeLess(p, q)
       IN  <<m>> \o SortedSizes(S \ {m})

IcoKeep(dim, base) ==
  ~(dim[1] > base.size \/ dim[2] > base.size \/ dim[1] > 256 \/ dim[2] > 256)

IcoFrame(dim, provided) ==
  LET hits == {k \in 1..Len(provided) :
                 <<provided[k].size, provided[k].size>> = dim}
  IN  IF hits # {}
        THEN [dim |-> dim, scaled |-> FALSE,
              image |-> provided[CHOOSE k \in hits : \A j \in hits : k <= j]]
        ELSE [dim |-> dim, scaled |-> TRUE, image |-> provided[1]]

IcoSave(base, sizes, append_images) ==
  LET provided == <<base>> \o append_images
      wanted   == SortedSizes({sizes[k] : k \in 1..Len(sizes)})
      kept     == SelectSeq(wanted, LAMBDA d : IcoKeep(d, base))
  IN  [ format |-> "ICO",
        frames |-> [k \in 1..Len(kept) |-> IcoFrame(kept[k], provided)] ]

\* img.save(path, "PNG"): one image of the raster's own dimensions.
PngSave(image) ==
  [ format |-> "PNG",
    frames |-> << [dim |-> <<image.size, image.size>>, scaled |-> FALSE,
                   image |-> image] >> ]

\* Variant: the size left out of the file name.
PngName_nosize(prefix, sz) == prefix \o ".png"

\* f"{prefix}-{sz}.png"
PngName(prefix, sz) == prefix \o "-" \o ToString(sz) \o ".png"

\* A file that save() opened for writing and did not finish.
Truncated == [format |-> "truncated", frames |-> <<>>]

\* A file left in the directory by something other than this run.
Stale == [format |-> "stale", frames |-> <<>>]

\* ---------------------------------------------------------------- __main__
IcoCall(filename, palette) ==
  [fn |-> "generate_ico", name |-> filename, palette |-> palette]

PngCall(prefix, palette) ==
  [fn |-> "generate_pngs", name |-> prefix, palette |-> palette]

\* Variant: a PNG-set export moved before the icon exports.
MainSwapped ==
  << PngCall("icon-dark", DARK), IcoCall("subnetree.ico", DARK),
     IcoCall("subnetree-light.ico", LIGHT), PngCall("icon-light", LIGHT) >>

Main ==
  << IcoCall("subnetree.ico", DARK), IcoCall("subnetree-light.ico", LIGHT),
     PngCall("icon-dark", DARK), PngCall("icon-light", LIGHT) >>

\* Files the directory may hold before the run starts.
StaleNames == {"subnetree.ico", "icon-light-64.png", "logo.svg"}

InitialDirs ==
  {[n \in D |-> Stale] : D \in SUBSET StaleNames}

\* Arguments the exporters are explored with when called on their own.
FileNames == {"subnetree.ico", "subnetree-light.ico", "icon-dark", "icon-light"}

Sizes == (1..MaxSize) \cup {ICO_SIZES[k] : k \in 1..Len(ICO_SIZES)}
                      \cup {PNG_SIZES[k] : k \in 1..Len(PNG_SIZES)}

VARIABLES
  pc,       \* where control is: "start", "main", "generate_ico",
            \* "generate_pngs", "draw_icon", "returned", "done", "crashed"
  prog,     \* the export calls the driver makes, in order
  callIdx,  \* the driver's position in prog
  i,        \* the exporter's position in its size list
  images,   \* generate_ico's list of rasters
  img,      \* generate_pngs' current raster (<<>> when none)
  call,     \* the arguments of the latest draw_icon call (<<>> when none)
  fs,       \* the script directory: file name -> contents
  stdout,   \* the lines printed
  log       \* history: begin/render/write/fail/end events in order

vars == <<pc, prog, callIdx, i, images, img, call, fs, stdout, log>>

Put(dir, path, content) == (path :> content) @@ dir

RenderEvent(size, palette, rounded_bg, raster) ==
  [ev |-> "render", call |-> callIdx, size |-> size, palette |-> palette,
   rounded_bg |-> rounded_bg, raster |-> raster]

\* Entering an exporter: its locals are fresh.
Enter(c, k) ==
  /\ pc' = c.fn
  /\ callIdx' = k
  /\ i' = 1
  /\ images' = <<>>
  /\ img' = <<>>
  /\ log' = Append(log, [ev |-> "begin", call |-> k, fn |-> c.fn,
                         name |-> c.name, palette |-> c.palette])

Init ==
  /\ pc = "start"
  /\ prog = Main
  /\ callIdx = 0
  /\ i = 0
  /\ images = <<>>
  /\ img = <<>>
  /\ call = <<>>
  /\ fs \in InitialDirs
  /\ stdout = <<>>
  /\ log = <<>>

\* print("Generating SubNetree icon files...\n")
MainStart ==
  /\ pc = "start"
  /\ pc' = "main"
  /\ callIdx' = 1
  /\ stdout' = Append(stdout, <<"Generating SubNetree icon files...", "">>)
  /\ UNCHANGED <<prog, i, images, img, call, fs, log>>

\* The driver's next export call; print() separates the ICO and PNG parts.
MainCall ==
  /\ pc = "main"
  /\ callIdx <= Len(prog)
  /\ Enter(prog[callIdx], callIdx)
  /\ stdout' = IF callIdx = 3 THEN Append(stdout, <<"", "">>) ELSE stdout
  /\ UNCHANGED <<prog, call, fs>>

\* print("\nDone!")
MainDone ==
  /\ pc = "main"
  /\ callIdx > Len(prog)
  /\ pc' = "done"
  /\ stdout' = Append(stdout, <<"Done!", "">>)
  /\ UNCHANGED <<prog, callIdx, i, images, img, call, fs, log>>

Return ==
  /\ pc' = "main"
  /\ callIdx' = callIdx + 1
  /\ i' = 0
  /\ images' = <<>>
  /\ img' = <<>>

\* Variant: the failure is swallowed and the exporter carries on.
Crash_retry(path) ==
  /\ fs' = fs
  /\ log' = Append(log, [ev |-> "fail", call |-> callIdx, path |-> path])
  /\ UNCHANGED <<pc, prog, callIdx, i, images, img, call, stdout>>

\* The uncaught exception of a failed save ends the process.  The file being
\* written is either untouched (it could not be opened, or the library
\* removed what it had created) or left truncated.
Crash(path) ==
  /\ pc' = "crashed"
  /\ \/ fs' = fs
     \/ fs' = Put(fs, path, Truncated)
  /\ log' = Append(log, [ev |-> "fail", call |-> callIdx, path |-> path])
  /\ UNCHANGED <<prog, callIdx, i, images, img, call, stdout>>

\* generate_ico: for sz in sizes: images.append(draw_icon(sz, palette, sz >= 32))
IcoRender ==
  /\ pc = "generate_ico"
  /\ i <= Len(ICO_SIZES)
  /\ LET sz == ICO_SIZES[i]
         c  == prog[callIdx]
     IN  /\ images' = Append(images, draw_icon(sz, c.palette, sz >= 32))
         /\ call' = <<[size |-> sz, palette |-> c.palette, rounded_bg |-> sz >= 32]>>
         /\ log' = Append(log, RenderEvent(sz, c.palette, sz >= 32,
                                            draw_icon(sz, c.palette, sz >= 32)))
  /\ i' = i + 1
  /\ UNCHANGED <<pc, prog, callIdx, img, fs, stdout>>

\* generate_ico: images[0].save(path, format="ICO", sizes=[(sz, sz) ...],
\* append_images=images[1:]); print(...)
IcoWrite ==
  /\ pc = "generate_ico"
  /\ i > Len(ICO_SIZES)
  /\ LET path    == prog[callIdx].name
         content == IcoSave(Head(images),
                            [k \in 1..Len(ICO_SIZES) |-> <<ICO_SIZES[k], ICO_SIZES[k]>>],
                            Tail(images))
     IN  /\ fs' = Put(fs, path, content)
         /\ stdout' = Append(stdout, <<"Created", path>>)
         /\ log' = Append(Append(log,
                     [ev |-> "write", call |-> callIdx, path |-> path,
                      content |-> content]),
                     [ev |-> "end", call |-> callIdx])
  /\ Return
  /\ UNCHANGED <<prog, call>>

IcoWriteFail ==
  /\ pc = "generate_ico"
  /\ i > Len(ICO_SIZES)
  /\ Crash(prog[callIdx].name)

\* generate_pngs: img = draw_icon(sz, palette, rounded_bg=True)
PngRender ==
  /\ pc = "generate_pngs"
  /\ i <= Len(PNG_SIZES)
  /\ img = <<>>
  /\ LET sz == PNG_SIZES[i]
         c  == prog[callIdx]
     IN  /\ img' = <<draw_icon(sz, c.palette, TRUE)>>
         /\ call' = <<[size |-> sz, palette |-> c.palette, rounded_bg |-> TRUE]>>
         /\ log' = Append(log, RenderEvent(sz, c.palette, TRUE,
                                            draw_icon(sz, c.palette, TRUE)))
  /\ UNCHANGED <<pc, prog, callIdx, i, images, fs, stdout>>

\* generate_pngs: img.save(path, "PNG"); print(...); next size or return
PngWrite ==
  /\ pc = "generate_pngs"
  /\ img # <<>>
  /\ LET path    == PngName(prog[callIdx].name, PNG_SIZES[i])
         content == PngSave(img[1])
         written == Append(log, [ev |-> "write", call |-> callIdx,
                                 path |-> path, content |-> content])
     IN  /\ fs' = Put(fs, path, content)
         /\ stdout' = Append(stdout, <<"Created", path>>)
         /\ IF i < Len(PNG_SIZES)
              THEN /\ i' = i + 1
                   /\ img' = <<>>
                   /\ log' = written
                   /\ UNCHANGED <<pc, callIdx, images>>
              ELSE /\ log' = Append(written, [ev |-> "end", call |-> callIdx])
                   /\ Return
  /\ UNCHANGED <<prog, call>>

PngWriteFail ==
  /\ pc = "generate_pngs"
  /\ img # <<>>
  /\ Crash(PngName(prog[callIdx].name, PNG_SIZES[i]))

Next ==
  \/ MainStart
  \/ MainCall
  \/ MainDone
  \/ IcoRender
  \/ IcoWrite
  \/ IcoWriteFail
  \/ PngRender
  \/ PngWrite
  \/ PngWriteFail

Spec == Init /\ [][Next]_vars

\* ------------------------------------------- one exporter call on its own
InitCall ==
  /\ \E fn \in {"generate_ico", "generate_pngs"}, n \in FileNames, p \in Palettes :
       /\ prog = <<[fn |-> fn, name |-> n, palette |-> p]>>
       /\ pc = fn
       /\ log = <<[ev |-> "begin", call |-> 1, fn |-> fn, name |-> n, palette |-> p]>>
  /\ callIdx = 1
  /\ i = 1
  /\ images = <<>>
  /\ img = <<>>
  /\ call = <<>>
  /\ fs \in InitialDirs
  /\ stdout = <<>>

NextCall ==
  \/ IcoRender
  \/ IcoWrite
  \/ IcoWriteFail
  \/ PngRender
  \/ PngWrite
  \/ PngWriteFail

SpecCall == InitCall /\ [][NextCall]_vars

\* ---------------------------------------------- draw_icon called on its own
InitRender ==
  /\ pc = "draw_icon"
  /\ prog = <<>>
  /\ callIdx = 0
  /\ i = 0
  /\ images = <<>>
  /\ img = <<>>
  /\ call = <<>>
  /\ fs = <<>>
  /\ stdout = <<>>
  /\ log = <<>>

DrawIconCall ==
  /\ pc = "draw_icon"
  /\ \E size \in Sizes, palette \in Palettes, rounded_bg \in BOOLEAN :
       /\ img' = <<draw_icon(size, palette, rounded_bg)>>
       /\ call' = <<[size |-> size, palette |-> palette, rounded_bg |-> rounded_bg]>>
  /\ pc' = "returned"
  /\ UNCHANGED <<prog, callIdx, i, images, fs, stdout, log>>

NextRender == DrawIconCall

SpecRender == InitRender /\ [][NextRender]_vars

\* ======================================================== properties
\* The scene elements of a raster: <<class, index>> of every drawing call.
ElemsOf(raster) == {<<raster.ops[k].elem, raster.ops[k].idx>> : k \in 1..Len(raster.ops)}

OpsOf(raster, e) ==
  {k \in 1..Len(raster.ops) : <<raster.ops[k].elem, raster.ops[k].idx>> = e}

PartsOf(raster, e) == {raster.ops[k].part : k \in OpsOf(raster, e)}

BaseLayer ==
  {<<"trunk", 1>>, <<"main_branch", 1>>, <<"main_branch", 2>>,
   <<"leaf_branch", 1>>, <<"leaf_branch", 2>>, <<"leaf_branch", 3>>,
   <<"leaf_branch", 4>>, <<"leaf_node", 1>>, <<"leaf_node", 2>>,
   <<"leaf_node", 3>>, <<"leaf_node", 4>>, <<"gateway_node", 1>>,
   <<"gateway_node", 2>>, <<"junction_node", 1>>, <<"root_node", 1>>}

RingLayer == {<<"outer_ring", 1>>, <<"glow_ring", 1>>}

SatelliteLayer ==
  {<<"satellite_line", 1>>, <<"satellite_line", 2>>,
   <<"satellite_node", 1>>, <<"satellite_node", 2>>}

DiscoveryLayer == {<<"discovery_link", 1>>}

NodeClasses ==
  {"leaf_node", "gateway_node", "junction_node", "satellite_node", "root_node"}

\* A state in which draw_icon has just returned.
Drawn == pc = "returned" /\ img # <<>> /\ call # <<>>

\* C5: the elements draw_icon draws are decided by the size alone: ring and
\* glow ring iff size >= 64, satellite lines and nodes iff size >= 48, the
\* discovery link iff size >= 32, the base layer always, nothing else, and
\* every line once and every node's outer circle once.
C5_ElementsBySize ==
  Drawn =>
    LET sz == call[1].size
        E  == ElemsOf(img[1])
    IN  /\ BaseLayer \subseteq E
        /\ \A e \in RingLayer : e \in E <=> sz >= 64
        /\ \A e \in SatelliteLayer : e \in E <=> sz >= 48
        /\ \A e \in DiscoveryLayer : e \in E <=> sz >= 32
        /\ E \subseteq BaseLayer \cup RingLayer \cup SatelliteLayer \cup DiscoveryLayer
        /\ \A e \in E :
             Cardinality({k \in OpsOf(img[1], e) :
                            img[1].ops[k].part \in {"line", "ring", "outer"}}) = 1
        /\ sz = 16 => E = BaseLayer

C5_Witness ==
  /\ Drawn
  /\ call[1].size = 16
  /\ ElemsOf(img[1]) = BaseLayer

\* C6: every element drawn at a size a is drawn at every size b >= a,
\* whatever the palette and the background flag; the ring elements are
\* drawn at 64, 128 and 256 and not at 16.
C6_Monotonic ==
  Drawn =>
    LET b == call[1].size
        E == ElemsOf(img[1])
    IN  /\ \A a \in 1..b : \A p \in Palettes, rb \in BOOLEAN :
             ElemsOf(draw_icon(a, p, rb)) \subseteq E
        /\ b \in {64, 128, 256} => RingLayer \subseteq E
        /\ b = 16 => RingLayer \cap E = {}

C6_Witness ==
  /\ Drawn
  /\ call[1].size = 128
  /\ RingLayer \subseteq ElemsOf(img[1])
  /\ ElemsOf(draw_icon(64, call[1].palette, ~call[1].rounded_bg)) = ElemsOf(img[1])

\* C8 (as claimed): every node is drawn as an outer circle, and its inner dot
\* is skipped whenever the inner radius times size/256, truncated, is 0.
C8_InnerDotSkippedAtZero ==
  Drawn =>
    \A e \in ElemsOf(img[1]) :
      e[1] \in NodeClasses =>
        /\ "outer" \in PartsOf(img[1], e)
        /\ IntScale(NodeDesign[e[1]][2], call[1].size) = 0
             => "inner" \notin PartsOf(img[1], e)

\* Integers nearest to n/d (both when n/d lies halfway between two).
Nearest(n, d) == {r \in 0..(n \div d + 1) : 2 * (r * d - n) <= d /\ 2 * (n - r * d) <= d}

\* C9 (as claimed): with the rounded background the corner radius is
\* max(2, round(32 * size / 256)).
C9_RadiusRounded ==
  (Drawn /\ call[1].rounded_bg) =>
    \E r \in Nearest(32 * call[1].size, 256) :
      img[1].background.radius = IF r < 2 THEN 2 ELSE r

\* C9 (amended): with the rounded background the corner radius is
\* max(2, floor(size / 8)): 32 * size / 256 truncated, not rounded.
C9_RadiusTruncated ==
  (Drawn /\ call[1].rounded_bg) =>
    /\ img[1].background.shape = "rounded_rectangle"
    /\ \E q \in 0..call[1].size :
         /\ 8 * q <= call[1].size
         /\ call[1].size < 8 * (q + 1)
         /\ img[1].background.radius = IF q < 2 THEN 2 ELSE q

C9_Witness ==
  /\ Drawn
  /\ call[1].rounded_bg
  /\ call[1].size = 28
  /\ img[1].background.radius = 3

\* C10: every drawn line has a width of at least 1, every drawn circle a
\* radius of at least 1, and every outlined circle (node outer circles, the
\* outer ring, the glow ring) a stroke width of at least 1.
C10_AtLeastOnePixel ==
  Drawn =>
    \A k \in 1..Len(img[1].ops) :
      LET op == img[1].ops[k]
      IN  /\ op.part = "line" => op.width >= 1
          /\ op.part \in {"outer", "inner", "ring"} => op.r >= 1
          /\ op.part \in {"outer", "ring"} => op.width >= 1

C10_Witness ==
  /\ Drawn
  /\ call[1].size = 64
  /\ \E k \in 1..Len(img[1].ops) :
       /\ img[1].ops[k].elem = "glow_ring"
       /\ img[1].ops[k].r = 5
       /\ img[1].ops[k].width = 1
  /\ \E k \in 1..Len(img[1].ops) :
       /\ img[1].ops[k].elem = "leaf_node"
       /\ img[1].ops[k].part = "inner"
       /\ img[1].ops[k].r = 1

\* ------------------------------------------------ exporters and driver
Idx(kind) == {k \in 1..Len(log) : log[k].ev = kind}

Events(kind) == SelectSeq(log, LAMBDA e : e.ev = kind)

\* The events of export call c other than its begin.
BodyOf(c) == SelectSeq(log, LAMBDA e : e.call = c /\ e.ev # "begin")

IcoSizeList == <<16, 24, 32, 48, 64, 128, 256>>

PngSizeList == <<32, 64, 128, 256, 512>>

SizeText == (32 :> "32") @@ (64 :> "64") @@ (128 :> "128") @@ (256 :> "256")
            @@ (512 :> "512")

DarkFiles ==
  {"subnetree.ico", "icon-dark-32.png", "icon-dark-64.png", "icon-dark-128.png",
   "icon-dark-256.png", "icon-dark-512.png"}

LightFiles ==
  {"subnetree-light.ico", "icon-light-32.png", "icon-light-64.png",
   "icon-light-128.png", "icon-light-256.png", "icon-light-512.png"}

PaletteColors(p) ==
  {p.bg, p.card, p.green, p.earth, p.sage, p.line_green, p.line_earth,
   p.line_faint, p.ring, p.sage_dim, <<p.sage[1], p.sage[2], p.sage[3], 38>>}

RasterColors(raster) ==
  ({raster.background.fill}
     \cup {raster.ops[k].fill : k \in 1..Len(raster.ops)}
     \cup {raster.ops[k].outline : k \in 1..Len(raster.ops)}) \ {NoColor}

\* The exports begun so far, as <<function, name, palette>>.
Begun == [k \in 1..Len(Events("begin")) |->
            <<Events("begin")[k].fn, Events("begin")[k].name,
              Events("begin")[k].palette>>]

\* The ends, before position k of the log, of calls of function fn.
EndedBefore(k, fn) ==
  {j \in 1..(k - 1) :
     /\ log[j].ev = "end"
     /\ \E m \in 1..(j - 1) :
          log[m].ev = "begin" /\ log[m].call = log[j].call /\ log[m].fn = fn}

\* Exports run one after another: an export begins only right after the
\* previous one has ended, and every event belongs to the latest export.
OneAfterAnother ==
  \A k \in 1..Len(log) :
    /\ (log[k].ev = "begin" /\ k > 1) => log[k - 1].ev = "end"
    /\ log[k].call = Cardinality({j \in 1..k : log[j].ev = "begin"})

PngAfterBothIcons ==
  \A k \in Idx("begin") :
    log[k].fn = "generate_pngs" =>
      Cardinality(EndedBefore(k, "generate_ico")) = 2

\* C1 (as claimed): a complete run makes two icon exports (dark, light) and
\* then four PNG-set exports.
C1_FourPngExports ==
  pc = "done" =>
    /\ Len(Begun) = 6
    /\ Begun[1][1] = "generate_ico" /\ Begun[1][3] = DARK
    /\ Begun[2][1] = "generate_ico" /\ Begun[2][3] = LIGHT
    /\ \A k \in 3..6 : Begun[k][1] = "generate_pngs"
    /\ OneAfterAnother
    /\ PngAfterBothIcons

\* C1 (amended): the exports run strictly one after another in the order
\* icon DARK, icon LIGHT, PNG set icon-dark DARK, PNG set icon-light LIGHT;
\* no PNG-set export starts before both icon exports have finished; a
\* complete run has made exactly these four.
C1_ExportOrder ==
  LET expected == << <<"generate_ico", "subnetree.ico", DARK>>,
                     <<"generate_ico", "subnetree-light.ico", LIGHT>>,
                     <<"generate_pngs", "icon-dark", DARK>>,
                     <<"generate_pngs", "icon-light", LIGHT>> >>
  IN  /\ Len(Begun) <= 4
      /\ \A k \in 1..Len(Begun) : Begun[k] = expected[k]
      /\ OneAfterAnother
      /\ PngAfterBothIcons
      /\ pc = "done" => (Len(Begun) = 4 /\ Len(Events("end")) = 4)

C1_Witness ==
  /\ pc = "done"
  /\ Len(Begun) = 4
  /\ Begun[3][1] = "generate_pngs"
  /\ Cardinality(EndedBefore(Len(log), "generate_ico")) = 2

\* C2: after a complete run the files written are exactly the 12 named ones,
\* each once; each holds only rasters rendered in its own export, with the
\* palette of its theme; and every export has rendered each size of its list
\* exactly once (24 renders).
C2_TwelveFiles ==
  pc = "done" =>
    LET W == Events("write")
        R == Events("render")
    IN  /\ {W[k].path : k \in 1..Len(W)} = DarkFiles \cup LightFiles
        /\ Len(W) = 12
        /\ Cardinality(DarkFiles \cup LightFiles) = 12
        /\ \A k \in 1..Len(W) :
             LET theme == IF W[k].path \in DarkFiles THEN DARK ELSE LIGHT
             IN  /\ W[k].path \in DOMAIN fs
                 /\ fs[W[k].path] = W[k].content
                 /\ Len(W[k].content.frames) >= 1
                 /\ \A f \in 1..Len(W[k].content.frames) :
                      LET image == W[k].content.frames[f].image
                      IN  /\ \E j \in 1..Len(R) :
                               /\ R[j].call = W[k].call
                               /\ R[j].palette = theme
                               /\ R[j].raster = image
                          /\ image.background.fill = theme.bg
                          /\ RasterColors(image) \subseteq PaletteColors(theme)
        /\ Len(R) = 24
        /\ \A c \in 1..4 :
             LET Rc == SelectSeq(R, LAMBDA e : e.call = c)
             IN  [k \in 1..Len(Rc) |-> Rc[k].size]
                   = IF c <= 2 THEN IcoSizeList ELSE PngSizeList

C2_Witness ==
  /\ pc = "done"
  /\ "icon-light-512.png" \in DOMAIN fs
  /\ fs["icon-light-512.png"].format = "PNG"
  /\ "subnetree.ico" \in DOMAIN fs
  /\ fs["subnetree.ico"].format = "ICO"
  /\ Len(Events("render")) = 24

\* C3 (as claimed): a finished generate_ico call has rendered 16, 24, 32, 48,
\* 64, 128, 256 in that order, once each, rounded exactly from 32 up, and
\* then made one write whose container holds 7 frames, the i-th listed
\* under (size_i, size_i) and being the raster rendered at size_i.
C3_SevenFrames ==
  \A b \in Idx("begin") :
    (log[b].fn = "generate_ico" /\ \E e \in Idx("end") : log[e].call = log[b].call) =>
      LET body == BodyOf(log[b].call)
      IN  /\ Len(body) = 9
          /\ \A k \in 1..7 :
               /\ body[k].ev = "render"
               /\ body[k].size = IcoSizeList[k]
               /\ body[k].palette = log[b].palette
               /\ body[k].rounded_bg = (IcoSizeList[k] >= 32)
               /\ body[k].raster.size = IcoSizeList[k]
               /\ body[k].raster.background.shape =
                    IF IcoSizeList[k] >= 32 THEN "rounded_rectangle" ELSE "rectangle"
          /\ body[8].ev = "write"
          /\ body[8].path = log[b].name
          /\ body[9].ev = "end"
          /\ Len(body[8].content.frames) = 7
          /\ \A k \in 1..Len(body[8].content.frames) :
               k <= 7 =>
                 /\ body[8].content.frames[k].dim = <<IcoSizeList[k], IcoSizeList[k]>>
                 /\ body[8].content.frames[k].image = body[k].raster

\* C4: a generate_pngs call alternates render and write over 32, 64, 128,
\* 256, 512: each render uses the rounded background, each write follows its
\* own render directly, is named {prefix}-{size}.png and holds exactly that
\* raster; a finished call has written exactly these 5 files.
C4_PngSet ==
  \A b \in Idx("begin") :
    log[b].fn = "generate_pngs" =>
      LET body == BodyOf(log[b].call)
      IN  /\ Len(body) <= 11
          /\ \A k \in 1..Len(body) :
               LET sz == PngSizeList[(k + 1) \div 2]
               IN  IF k = 11 THEN body[k].ev = "end"
                   ELSE IF k % 2 = 1
                     THEN /\ body[k].ev = "render"
                          /\ body[k].size = sz
                          /\ body[k].palette = log[b].palette
                          /\ body[k].raster.size = sz
                          /\ body[k].raster.background.shape = "rounded_rectangle"
                          /\ body[k].raster.background.fill = log[b].palette.bg
                     ELSE /\ body[k].ev \in {"write", "fail"}
                          /\ body[k].ev = "fail" => k = Len(body)
                          /\ body[k].path = log[b].name \o "-" \o SizeText[sz] \o ".png"
                          /\ body[k].ev = "write" =>
                               /\ body[k].content.format = "PNG"
                               /\ Len(body[k].content.frames) = 1
                               /\ body[k].content.frames[1].dim = <<sz, sz>>
                               /\ body[k].content.frames[1].image = body[k - 1].raster
                               /\ fs[body[k].path] = body[k].content
          /\ (\E e \in Idx("end") : log[e].call = log[b].call) =>
               /\ Len(body) = 11
               /\ Cardinality({body[k].path : k \in {2, 4, 6, 8, 10}}) = 5

C4_Witness ==
  /\ pc = "main"
  /\ Len(log) = 12
  /\ log[1].fn = "generate_pngs"
  /\ log[1].name = "icon-dark"
  /\ log[1].palette = LIGHT
  /\ log[11].ev = "write"
  /\ log[11].path = "icon-dark-512.png"
  /\ log[12].ev = "end"

\* C7: a failed write ends the run: it is the last event (no retry, no later
\* render or write, no later export), the process has crashed, and every
\* file written before it still holds what was written.
C7_FailureIsFatal ==
  /\ \A k \in Idx("fail") :
       /\ k = Len(log)
       /\ pc = "crashed"
       /\ \A j \in 1..(k - 1) :
            log[j].ev = "write" =>
              /\ log[j].path # log[k].path
              /\ log[j].path \in DOMAIN fs
              /\ fs[log[j].path] = log[j].content
  /\ pc = "crashed" => Idx("fail") # {}
  /\ pc = "done" => Idx("fail") = {}

C7_Witness ==
  /\ pc = "crashed"
  /\ log[Len(log)].ev = "fail"
  /\ log[Len(log)].path = "icon-dark-64.png"
  /\ "subnetree.ico" \in DOMAIN fs
  /\ fs["subnetree.ico"].format = "ICO"
  /\ "icon-dark-32.png" \in DOMAIN fs
  /\ fs["icon-dark-32.png"].format = "PNG"

====
